---- MODULE Spec2Model ----
(***************************************************************************)
(* Model of scripts/verify_mdi_codepoints.py: the verifier that checks the *)
(* icon codepoints declared in regen_mdi_fonts.sh against the cached MDI   *)
(* metadata.                                                               *)
(*                                                                         *)
(* Python strings are modelled as sequences of one-character strings, so   *)
(* that split, strip, lower, upper, replace, startswith and `in` are       *)
(* computed character by character as the interpreter computes them.      *)
(***************************************************************************)
EXTENDS Naturals, Sequences, FiniteSets

VARIABLES
    pc,            \* position of main(): start, fetch, build, parse, verify, exited
    scriptExists,  \* regen_script.exists()
    cacheState,    \* the cache file: "missing", "corrupt" (gzip/JSON fails) or "ok"
    cacheData,     \* the JSON array held by a readable cache file
    scriptLines,   \* the lines of regen_mdi_fonts.sh
    mdi_data,      \* main's mdi_data
    cp_to_name,    \* main's cp_to_name
    name_to_cp,    \* main's name_to_cp
    entries,       \* main's entries
    idx,           \* 1-based position of the for loop over entries
    errors,        \* main's errors
    ok_count,      \* main's ok_count
    report,        \* the per-error blocks printed by the report
    exit_code,     \* the status the process exits with (<<>> while running)
    comment,       \* normalizer harness: the input comment
    once,          \* normalizer harness: extract_icon_name_from_comment(comment)
    twice,         \* normalizer harness: the normalizer applied to `once`
    npc            \* normalizer harness: how many applications have run

vars == <<pc, scriptExists, cacheState, cacheData, scriptLines, mdi_data,
          cp_to_name, name_to_cp, entries, idx, errors, ok_count, report,
          exit_code, comment, once, twice, npc>>

mainVars == <<pc, scriptExists, cacheState, cacheData, scriptLines, mdi_data,
              cp_to_name, name_to_cp, entries, idx, errors, ok_count, report,
              exit_code>>

normVars == <<comment, once, twice, npc>>

----------------------------------------------------------------------------
(* Bounds of the explored inputs.                                          *)

MaxLen == 6          \* longest comment given to the normalizer harness
MaxIcons == 3        \* most metadata records in the lookup-builder runs
MaxLines == 2        \* most script lines in the whole-pipeline runs
MaxComment == 4      \* longest comment in the single-declaration runs
MaxMainIcons == 1    \* most metadata records in the whole-pipeline runs

----------------------------------------------------------------------------
(* Python str primitives.                                                  *)

\* All sequences over S of length at most n.
StringsUpTo(S, n) == UNION {[1..k -> S] : k \in 0..n}

\* str.isspace() for one character (the whitespace the inputs contain).
IsSpace(c) == c \in {" ", "\t"}

\* str.lower() for one character.
LowerChar(c) ==
    CASE c = "A" -> "a"
      [] c = "B" -> "b"
      [] c = "F" -> "f"
      [] c = "X" -> "x"
      [] OTHER -> c

\* str.upper() for one character.
UpperChar(c) ==
    CASE c = "a" -> "A"
      [] c = "b" -> "B"
      [] c = "f" -> "F"
      [] c = "x" -> "X"
      [] OTHER -> c

Lower(s) == [i \in 1..Len(s) |-> LowerChar(s[i])]

Upper(s) == [i \in 1..Len(s) |-> UpperChar(s[i])]

RECURSIVE LStrip(_)
LStrip(s) == IF s # <<>> /\ IsSpace(Head(s)) THEN LStrip(Tail(s)) ELSE s

RECURSIVE RStrip(_)
RStrip(s) ==
    IF s # <<>> /\ IsSpace(s[Len(s)]) THEN RStrip(SubSeq(s, 1, Len(s) - 1)) ELSE s

\* str.strip()
Strip(s) == RStrip(LStrip(s))

\* str.startswith(p)
StartsWith(s, p) == Len(p) <= Len(s) /\ SubSeq(s, 1, Len(p)) = p

\* the position of the first occurrence of sep in s, 0 when there is none
FirstOccurrence(s, sep) ==
    LET hits == {i \in 1..(Len(s) + 1) :
                    i + Len(sep) - 1 <= Len(s) /\ SubSeq(s, i, i + Len(sep) - 1) = sep}
    IN  IF hits = {} THEN 0 ELSE CHOOSE i \in hits : \A j \in hits : i <= j

\* `p in s` for strings
Contains(s, p) == FirstOccurrence(s, p) # 0

\* s.split(sep)[0], sep not empty
SplitFirst(s, sep) ==
    LET at == FirstOccurrence(s, sep)
    IN  IF at = 0 THEN s ELSE SubSeq(s, 1, at - 1)

\* s.replace(from, to) for a one-character `from` and `to`
ReplaceChar(s, from, to) == [i \in 1..Len(s) |-> IF s[i] = from THEN to ELSE s[i]]

\* s.replace(pat, '') : every non-overlapping occurrence, left to right
RECURSIVE Remove(_, _)
Remove(s, pat) ==
    IF s = <<>> THEN <<>>
    ELSE IF StartsWith(s, pat) THEN Remove(SubSeq(s, Len(pat) + 1, Len(s)), pat)
    ELSE <<Head(s)>> \o Remove(Tail(s), pat)

----------------------------------------------------------------------------
(* extract_icon_name_from_comment                                          *)

\* A normalizer that forgets the strip() calls after the ' - ' split.
ExtractNoFinalStrip(c) ==
    Lower(SplitFirst(Strip(SplitFirst(c, <<"(">>)), <<" ", "-", " ">>))

extract_icon_name_from_comment(c) ==
    LET name1 == Strip(SplitFirst(c, <<"(">>))
        name2 == Strip(SplitFirst(name1, <<" ", "-", " ">>))
    IN  Strip(Lower(name2))

----------------------------------------------------------------------------
(* Python dicts: insertion-ordered keys and the value of each key.         *)

EmptyDict == [keys |-> <<>>, val |-> <<>>]

\* `k in d`
HasKey(d, k) == k \in DOMAIN d.val

\* d[k] = v : a new key goes last, an existing key keeps its place
Put(d, k, v) ==
    [keys |-> IF HasKey(d, k) THEN d.keys ELSE Append(d.keys, k),
     val  |-> [x \in (DOMAIN d.val) \cup {k} |-> IF x = k THEN v ELSE d.val[x]]]

\* icon.get(key, '')
Get(icon, key) == IF key \in DOMAIN icon THEN icon[key] ELSE <<>>

----------------------------------------------------------------------------
(* build_codepoint_lookup                                                  *)

\* One iteration of the loop body: lookup[cp] = name when both are non-empty.
\* Faulty variant: the first record of a codepoint wins.
AddIconFirstWins(lookup, icon) ==
    LET cp   == Upper(Get(icon, "codepoint"))
        name == Get(icon, "name")
    IN  IF cp # <<>> /\ name # <<>> /\ ~HasKey(lookup, cp)
        THEN Put(lookup, cp, name) ELSE lookup

AddIcon(lookup, icon) ==
    LET cp   == Upper(Get(icon, "codepoint"))
        name == Get(icon, "name")
    IN  IF cp # <<>> /\ name # <<>> THEN Put(lookup, cp, name) ELSE lookup

RECURSIVE BuildFrom(_, _)
BuildFrom(data, lookup) ==
    IF data = <<>> THEN lookup ELSE BuildFrom(Tail(data), AddIcon(lookup, Head(data)))

build_codepoint_lookup(data) == BuildFrom(data, EmptyDict)

\* name_to_cp = {v: k for k, v in cp_to_name.items()}
RECURSIVE InvertFrom(_, _, _)
InvertFrom(keys, d, rev) ==
    IF keys = <<>> THEN rev
    ELSE InvertFrom(Tail(keys), d, Put(rev, d.val[Head(keys)], Head(keys)))

Invert(d) == InvertFrom(d.keys, d, EmptyDict)

----------------------------------------------------------------------------
(* parse_regen_script                                                      *)
(* A script line is a record: `match` tells whether the pattern finds a    *)
(* declaration in it, `hex` is group 1 (0x and the hex digits as written)  *)
(* and `text` is group 2 (the rest of the line after the '#').            *)

ParseLine(n, line) ==
    [line      |-> n,
     codepoint |-> Remove(Upper(line.hex), <<"0", "X">>),
     comment   |-> Strip(line.text)]

RECURSIVE ParseFrom(_, _, _)
ParseFrom(lines, n, acc) ==
    IF n > Len(lines) THEN acc
    ELSE ParseFrom(lines, n + 1,
                   IF lines[n].match THEN Append(acc, ParseLine(n, lines[n])) ELSE acc)

parse_regen_script(lines) == ParseFrom(lines, 1, <<>>)

----------------------------------------------------------------------------
(* main: the body of the verification loop                                 *)

\* claimed_name.replace('_', '-').replace(' ', '-')
Canonical(name) == ReplaceChar(ReplaceChar(name, "_", "-"), " ", "-")

InvalidError(entry) ==
    [type      |-> "INVALID",
     line      |-> entry.line,
     codepoint |-> entry.codepoint,
     comment   |-> entry.comment,
     message   |-> <<"Codepoint ", entry.codepoint, " does not exist in MDI!">>]

MismatchError(entry, claimed, actual) ==
    [type      |-> "MISMATCH",
     line      |-> entry.line,
     codepoint |-> entry.codepoint,
     claimed   |-> claimed,
     actual    |-> actual,
     comment   |-> entry.comment]

\* Faulty variants of the loop body: only exact equality is accepted; an empty claimed
\* name is not accepted as a partial match; the canonical name is recorded;
\* the loop stops counting after the first error; the membership test is skipped
\* when the comment names a registered icon.
VerifyEntryExactOnly(entry, cpmap, errs, ok) ==
    LET claimed_name == extract_icon_name_from_comment(entry.comment)
        claimed_normalized == Canonical(claimed_name)
    IN  IF ~HasKey(cpmap, entry.codepoint)
        THEN [errors |-> Append(errs, InvalidError(entry)), ok_count |-> ok]
        ELSE IF claimed_normalized = cpmap.val[entry.codepoint]
        THEN [errors |-> errs, ok_count |-> ok + 1]
        ELSE [errors |-> Append(errs, MismatchError(entry, claimed_name,
                                                     cpmap.val[entry.codepoint])),
              ok_count |-> ok]

VerifyEntryRejectEmpty(entry, cpmap, errs, ok) ==
    LET claimed_name == extract_icon_name_from_comment(entry.comment)
        claimed_normalized == Canonical(claimed_name)
    IN  IF ~HasKey(cpmap, entry.codepoint)
        THEN [errors |-> Append(errs, InvalidError(entry)), ok_count |-> ok]
        ELSE LET actual_name == cpmap.val[entry.codepoint]
             IN  IF claimed_normalized = actual_name
                 THEN [errors |-> errs, ok_count |-> ok + 1]
                 ELSE IF claimed_normalized # <<>>
                         /\ (StartsWith(actual_name, claimed_normalized)
                             \/ Contains(actual_name, claimed_normalized))
                 THEN [errors |-> errs, ok_count |-> ok + 1]
                 ELSE [errors |-> Append(errs, MismatchError(entry, claimed_name,
                                                              actual_name)),
                       ok_count |-> ok]

VerifyEntryRecordsCanonical(entry, cpmap, errs, ok) ==
    LET claimed_name == extract_icon_name_from_comment(entry.comment)
        claimed_normalized == Canonical(claimed_name)
    IN  IF ~HasKey(cpmap, entry.codepoint)
        THEN [errors |-> Append(errs, InvalidError(entry)), ok_count |-> ok]
        ELSE LET actual_name == cpmap.val[entry.codepoint]
             IN  IF claimed_normalized = actual_name
                 THEN [errors |-> errs, ok_count |-> ok + 1]
                 ELSE IF StartsWith(actual_name, claimed_normalized)
                         \/ Contains(actual_name, claimed_normalized)
                 THEN [errors |-> errs, ok_count |-> ok + 1]
                 ELSE [errors |-> Append(errs, MismatchError(entry, claimed_normalized,
                                                              actual_name)),
                       ok_count |-> ok]

VerifyEntryStopsAfterError(entry, cpmap, errs, ok) ==
    LET claimed_name == extract_icon_name_from_comment(entry.comment)
        claimed_normalized == Canonical(claimed_name)
    IN  IF errs # <<>>
        THEN [errors |-> errs, ok_count |-> ok]
        ELSE IF ~HasKey(cpmap, entry.codepoint)
        THEN [errors |-> Append(errs, InvalidError(entry)), ok_count |-> ok]
        ELSE LET actual_name == cpmap.val[entry.codepoint]
             IN  IF claimed_normalized = actual_name
                 THEN [errors |-> errs, ok_count |-> ok + 1]
                 ELSE IF StartsWith(actual_name, claimed_normalized)
                         \/ Contains(actual_name, claimed_normalized)
                 THEN [errors |-> errs, ok_count |-> ok + 1]
                 ELSE [errors |-> Append(errs, MismatchError(entry, claimed_name,
                                                              actual_name)),
                       ok_count |-> ok]

VerifyEntryTrustsKnownName(entry, cpmap, errs, ok) ==
    LET claimed_name == extract_icon_name_from_comment(entry.comment)
        claimed_normalized == Canonical(claimed_name)
    IN  IF \E k \in DOMAIN cpmap.val : cpmap.val[k] = claimed_normalized
        THEN [errors |-> errs, ok_count |-> ok + 1]
        ELSE IF ~HasKey(cpmap, entry.codepoint)
        THEN [errors |-> Append(errs, InvalidError(entry)), ok_count |-> ok]
        ELSE LET actual_name == cpmap.val[entry.codepoint]
             IN  IF StartsWith(actual_name, claimed_normalized)
                         \/ Contains(actual_name, claimed_normalized)
                 THEN [errors |-> errs, ok_count |-> ok + 1]
                 ELSE [errors |-> Append(errs, MismatchError(entry, claimed_name,
                                                              actual_name)),
                       ok_count |-> ok]

\* The loop body for one entry: the new errors list and ok_count.
VerifyEntry(entry, cpmap, errs, ok) ==
    LET claimed_name == extract_icon_name_from_comment(entry.comment)
        claimed_normalized == Canonical(claimed_name)
    IN  IF ~HasKey(cpmap, entry.codepoint)
        THEN [errors |-> Append(errs, InvalidError(entry)), ok_count |-> ok]
        ELSE LET actual_name == cpmap.val[entry.codepoint]
             IN  IF claimed_normalized = actual_name
                 THEN [errors |-> errs, ok_count |-> ok + 1]
                 ELSE IF StartsWith(actual_name, claimed_normalized)
                         \/ Contains(actual_name, claimed_normalized)
                 THEN [errors |-> errs, ok_count |-> ok + 1]
                 ELSE [errors |-> Append(errs, MismatchError(entry, claimed_name,
                                                              actual_name)),
                       ok_count |-> ok]

----------------------------------------------------------------------------
(* main: the report and the exit statuses                                  *)

\* One printed block per error, in encounter order.
ReportBlock(err, rev) ==
    IF err.type = "INVALID"
    THEN [head      |-> "INVALID CODEPOINT",
          line      |-> err.line,
          codepoint |-> err.codepoint,
          comment   |-> err.comment]
    ELSE LET key == ReplaceChar(err.claimed, "_", "-")
         IN  [head      |-> "NAME MISMATCH",
              line      |-> err.line,
              codepoint |-> err.codepoint,
              says      |-> err.claimed,
              actually  |-> err.actual,
              hint      |-> IF HasKey(rev, key) THEN <<rev.val[key]>> ELSE <<>>]

Render(errs, rev) == [i \in 1..Len(errs) |-> ReportBlock(errs[i], rev)]

\* sys.exit(1) when regen_mdi_fonts.sh is missing
ScriptMissingExit == 1

\* A cache failure that exits like the missing script does.
CacheFailureExitGeneric == ScriptMissingExit

\* sys.exit(2) of fetch_mdi_metadata, for a missing and for an unloadable cache
CacheFailureExit == 2

\* A status that is nonzero only from the second error on.
ReturnStatusOffByOne(errs) == IF Len(errs) > 1 THEN 1 ELSE 0

\* return 1 if errors else 0
ReturnStatus(errs) == IF errs # <<>> THEN 1 ELSE 0

----------------------------------------------------------------------------
(* main, step by step                                                      *)

Running == <<>>          \* exit_code while the process has not exited

\* if not regen_script.exists(): sys.exit(1)
CheckScript ==
    /\ pc = "start"
    /\ IF scriptExists
       THEN pc' = "fetch" /\ exit_code' = exit_code
       ELSE pc' = "exited" /\ exit_code' = <<ScriptMissingExit>>
    /\ UNCHANGED <<scriptExists, cacheState, cacheData, scriptLines, mdi_data,
                   cp_to_name, name_to_cp, entries, idx, errors, ok_count, report>>
    /\ UNCHANGED normVars

\* A loader that swallows a corrupt cache and carries on with no records.
FetchMetadataSwallowsCorrupt ==
    /\ pc = "fetch"
    /\ IF cacheState = "missing"
       THEN pc' = "exited" /\ mdi_data' = mdi_data /\ exit_code' = <<CacheFailureExit>>
       ELSE pc' = "build" /\ mdi_data' = cacheData /\ exit_code' = exit_code
    /\ UNCHANGED <<scriptExists, cacheState, cacheData, scriptLines,
                   cp_to_name, name_to_cp, entries, idx, errors, ok_count, report>>
    /\ UNCHANGED normVars

\* mdi_data = fetch_mdi_metadata()
FetchMetadata ==
    /\ pc = "fetch"
    /\ IF cacheState = "ok"
       THEN pc' = "build" /\ mdi_data' = cacheData /\ exit_code' = exit_code
       ELSE pc' = "exited" /\ mdi_data' = mdi_data /\ exit_code' = <<CacheFailureExit>>
    /\ UNCHANGED <<scriptExists, cacheState, cacheData, scriptLines,
                   cp_to_name, name_to_cp, entries, idx, errors, ok_count, report>>
    /\ UNCHANGED normVars

\* cp_to_name = build_codepoint_lookup(mdi_data); name_to_cp = {...}
BuildLookup ==
    /\ pc = "build"
    /\ cp_to_name' = build_codepoint_lookup(mdi_data)
    /\ name_to_cp' = Invert(cp_to_name')
    /\ pc' = "parse"
    /\ UNCHANGED <<scriptExists, cacheState, cacheData, scriptLines, mdi_data,
                   entries, idx, errors, ok_count, report, exit_code>>
    /\ UNCHANGED normVars

\* entries = parse_regen_script(regen_script); errors = []; ok_count = 0
ParseScript ==
    /\ pc = "parse"
    /\ entries' = parse_regen_script(scriptLines)
    /\ errors' = <<>>
    /\ ok_count' = 0
    /\ idx' = 1
    /\ pc' = "verify"
    /\ UNCHANGED <<scriptExists, cacheState, cacheData, scriptLines, mdi_data,
                   cp_to_name, name_to_cp, report, exit_code>>
    /\ UNCHANGED normVars

\* one iteration of `for entry in entries`
VerifyNext ==
    /\ pc = "verify"
    /\ idx <= Len(entries)
    /\ LET r == VerifyEntry(entries[idx], cp_to_name, errors, ok_count)
       IN  errors' = r.errors /\ ok_count' = r.ok_count
    /\ idx' = idx + 1
    /\ UNCHANGED <<pc, scriptExists, cacheState, cacheData, scriptLines, mdi_data,
                   cp_to_name, name_to_cp, entries, report, exit_code>>
    /\ UNCHANGED normVars

\* the loop is exhausted: print the report, return the status, sys.exit(main())
ReportAndExit ==
    /\ pc = "verify"
    /\ idx > Len(entries)
    /\ report' = Render(errors, name_to_cp)
    /\ exit_code' = <<ReturnStatus(errors)>>
    /\ pc' = "exited"
    /\ UNCHANGED <<scriptExists, cacheState, cacheData, scriptLines, mdi_data,
                   cp_to_name, name_to_cp, entries, idx, errors, ok_count>>
    /\ UNCHANGED normVars

Next ==
    \/ CheckScript
    \/ FetchMetadata
    \/ BuildLookup
    \/ ParseScript
    \/ VerifyNext
    \/ ReportAndExit

----------------------------------------------------------------------------
(* The normalizer applied twice to one comment.                            *)

NormalizeOnce ==
    /\ npc = "input"
    /\ once' = extract_icon_name_from_comment(comment)
    /\ npc' = "once"
    /\ UNCHANGED <<comment, twice>>
    /\ UNCHANGED mainVars

NormalizeAgain ==
    /\ npc = "once"
    /\ twice' = extract_icon_name_from_comment(once)
    /\ npc' = "twice"
    /\ UNCHANGED <<comment, once>>
    /\ UNCHANGED mainVars

NormNext ==
    \/ NormalizeOnce
    \/ NormalizeAgain

----------------------------------------------------------------------------
(* Inputs                                                                  *)

NormAlphabet == {"a", "B", " ", "\t", "-", "("}

EntryAlphabet == {"a", "b", "_", " ", "(", "-"}

\* group 1 of the pattern: a literal 0x and hex digits of either case
HexTokens == {<<"0", "x", "f", "0">>, <<"0", "x", "F", "1">>}

\* comments of the whole-pipeline runs
SampleComments ==
    {<<"a", "b">>, <<"a", "_", "b">>, <<"b">>, <<"(", "x">>, <<"A", "b", " ", "(", "x">>}

\* registered names of the pipeline and single-declaration runs
SampleNames == {<<"a">>, <<"a", "b">>, <<"a", "-", "b">>}

SampleIcons ==
    {[codepoint |-> c, name |-> n] :
        c \in {<<"f", "0">>, <<"F", "1">>}, n \in SampleNames}
    \cup {[codepoint |-> <<"f", "0">>]}

\* records of the lookup-builder runs: either field may be absent or empty
LookupIcons ==
    LET cps   == {<<>>, <<"f", "0">>, <<"F", "0">>, <<"f", "1">>}
        names == {<<>>, <<"a">>, <<"b">>}
    IN  {[codepoint |-> c, name |-> n] : c \in cps, n \in names}
        \cup {[codepoint |-> c] : c \in cps}
        \cup {[name |-> n] : n \in names}

NoMatchLine == [match |-> FALSE, hex |-> <<>>, text |-> <<>>]

\* the lines a file can hold: declarations with these comments, and other lines
Lines(texts) ==
    {[match |-> TRUE, hex |-> h, text |-> t] : h \in HexTokens, t \in texts}
    \cup {NoMatchLine}

InitProgram ==
    /\ pc = "start"
    /\ mdi_data = <<>>
    /\ cp_to_name = EmptyDict
    /\ name_to_cp = EmptyDict
    /\ entries = <<>>
    /\ idx = 1
    /\ errors = <<>>
    /\ ok_count = 0
    /\ report = <<>>
    /\ exit_code = Running

InitNormIdle ==
    /\ comment = <<>>
    /\ once = <<>>
    /\ twice = <<>>
    /\ npc = "idle"

\* every combination of file presence, with these cache contents and scripts
InitFiles(datas, files) ==
    /\ scriptExists \in BOOLEAN
    /\ cacheState \in {"missing", "corrupt", "ok"}
    /\ cacheData \in (IF cacheState = "ok" THEN datas ELSE {<<>>})
    /\ scriptLines \in (IF scriptExists THEN files ELSE {<<>>})

\* whole pipeline: scripts of up to MaxLines lines
Init ==
    /\ InitProgram
    /\ InitNormIdle
    /\ InitFiles(StringsUpTo(SampleIcons, MaxMainIcons),
                 StringsUpTo(Lines(SampleComments), MaxLines))

\* single declaration: every comment of up to MaxComment characters
InitEntry ==
    /\ InitProgram
    /\ InitNormIdle
    /\ InitFiles({<<>>} \cup {<<icon>> : icon \in SampleIcons},
                 {<<l>> : l \in Lines(StringsUpTo(EntryAlphabet, MaxComment) \ {<<>>})})

\* lookup builder: every metadata array of up to MaxIcons records
InitLookup ==
    /\ InitProgram
    /\ InitNormIdle
    /\ InitFiles(StringsUpTo(LookupIcons, MaxIcons),
                 {<<l>> : l \in Lines({<<"a">>})})

\* normalizer: every comment of up to MaxLen characters
InitNorm ==
    /\ InitProgram
    /\ scriptExists = FALSE
    /\ cacheState = "missing"
    /\ cacheData = <<>>
    /\ scriptLines = <<>>
    /\ comment \in StringsUpTo(NormAlphabet, MaxLen)
    /\ once = <<>>
    /\ twice = <<>>
    /\ npc = "input"

Spec == Init /\ [][Next]_vars

SpecEntry == InitEntry /\ [][Next]_vars

SpecLookup == InitLookup /\ [][Next]_vars

SpecNorm == InitNorm /\ [][NormNext]_vars

----------------------------------------------------------------------------
(* What the claims speak of.                                               *)

FilesReadable == scriptExists /\ cacheState = "ok"

\* the loop has started; `Checked` are the positions of the entries it has handled
InLoop == FilesReadable /\ pc \in {"verify", "exited"}

Checked == 1..(idx - 1)

Finished == FilesReadable /\ pc = "exited"

\* the errors recorded for the entry at position j
ErrorsOf(j) == {i \in 1..Len(errors) : errors[i].line = entries[j].line}

Claimed(e) == Canonical(extract_icon_name_from_comment(e.comment))

\* the classification the specification gives an entry
Expected(e) ==
    IF e.codepoint \notin DOMAIN cp_to_name.val THEN "INVALID"
    ELSE LET actual  == cp_to_name.val[e.codepoint]
             claimed == Claimed(e)
         IN  IF \/ claimed = actual
                \/ (Len(claimed) <= Len(actual) /\ SubSeq(actual, 1, Len(claimed)) = claimed)
                \/ \E i \in 1..(Len(actual) + 1) :
                      /\ i + Len(claimed) - 1 <= Len(actual)
                      /\ SubSeq(actual, i, i + Len(claimed) - 1) = claimed
             THEN "OK"
             ELSE "MISMATCH"

\* actual is a proper prefix of claimed
StrictlyExtends(claimed, actual) ==
    Len(actual) < Len(claimed) /\ SubSeq(claimed, 1, Len(actual)) = actual

----------------------------------------------------------------------------
\* C1: when both input files are present and readable, the exit status is
\* nonzero iff at least one declaration was classified INVALID or MISMATCH,
\* and it is 0 exactly when every parsed declaration (none included) is OK.
C1_ExitStatus ==
    Finished =>
        /\ exit_code \in {<<0>>, <<1>>}
        /\ exit_code # <<0>> <=>
              \E i \in 1..Len(errors) : errors[i].type \in {"INVALID", "MISMATCH"}
        /\ exit_code # <<0>> <=>
              \E j \in 1..Len(entries) : Expected(entries[j]) \in {"INVALID", "MISMATCH"}
        /\ exit_code = <<0>> <=>
              (ok_count = Len(entries) /\ \A j \in 1..Len(entries) : Expected(entries[j]) = "OK")

C1_Witness ==
    /\ Finished
    /\ Len(entries) = 2
    /\ Expected(entries[1]) = "OK"
    /\ Expected(entries[2]) = "MISMATCH"
    /\ exit_code = <<1>>

\* the status a completed run returns when it recorded an error
FailureStatus == <<ReturnStatus(<<"error">>)>>

PrerequisiteFailure == ~scriptExists \/ cacheState # "ok"

\* C2 as claimed: no exit code of a prerequisite failure (cache missing or
\* corrupt, declaration file missing) is the exit code of a completed run that
\* found verification failures.
C2_NeverConflated ==
    /\ (Finished /\ errors # <<>>) => exit_code = FailureStatus
    /\ (pc = "exited" /\ PrerequisiteFailure) => exit_code # FailureStatus

\* C2 amended: a cache failure with the declaration file present exits with 2,
\* which no completed run returns; a missing declaration file exits with 1,
\* the status of a completed run that found verification failures.
C2_CacheFailureDistinct ==
    /\ Finished => exit_code \in {<<0>>, <<1>>}
    /\ (Finished /\ errors # <<>>) => exit_code = FailureStatus
    /\ (pc = "exited" /\ scriptExists /\ cacheState # "ok") =>
          (exit_code = <<2>> /\ exit_code # FailureStatus)
    /\ (pc = "exited" /\ ~scriptExists) => (exit_code = <<1>> /\ exit_code = FailureStatus)

C2_Witness ==
    /\ pc = "exited"
    /\ ~scriptExists
    /\ cacheState = "ok"
    /\ exit_code = <<1>>

NothingParsed ==
    /\ pc \in {"start", "fetch", "exited"}
    /\ entries = <<>>
    /\ errors = <<>>
    /\ ok_count = 0
    /\ report = <<>>

\* C3 as claimed: whenever the cache is absent or fails to load, the run ends
\* with exit code 2 and nothing was parsed or classified, whatever the state of
\* the declaration file.
C3_CacheFailureExits2 ==
    cacheState # "ok" =>
        /\ NothingParsed
        /\ pc = "exited" => exit_code = <<2>>

\* C3 amended: whenever the cache is absent or fails to load, nothing is parsed
\* or classified; the run ends with exit code 2 when the declaration file
\* exists, and with exit code 1 when the declaration file is missing.
C3_CacheFailureAfterScriptCheck ==
    cacheState # "ok" =>
        /\ NothingParsed
        /\ pc = "exited" => exit_code = (IF scriptExists THEN <<2>> ELSE <<1>>)

C3_Witness ==
    /\ pc = "exited"
    /\ cacheState = "corrupt"
    /\ scriptExists
    /\ \E n \in 1..Len(scriptLines) : scriptLines[n].match
    /\ exit_code = <<2>>

\* C4: every entry gets exactly one classification: the entries handled so far
\* are split between ok_count and errors, an entry is in errors at most once and
\* only as INVALID or MISMATCH, and the loop runs to the last entry whatever
\* came before.
C4_OneResultEach ==
    InLoop =>
        /\ ok_count + Len(errors) = idx - 1
        /\ \A i \in 1..Len(errors) : errors[i].type \in {"INVALID", "MISMATCH"}
        /\ \A i \in 1..Len(errors) : \E j \in Checked : errors[i].line = entries[j].line
        /\ \A j \in Checked : Cardinality(ErrorsOf(j)) <= 1
        /\ \A j \in Checked : (ErrorsOf(j) = {}) <=> (Expected(entries[j]) = "OK")
        /\ ok_count = Cardinality({j \in Checked : Expected(entries[j]) = "OK"})
        /\ pc = "exited" => idx - 1 = Len(entries)

C4_Witness ==
    /\ Finished
    /\ Len(entries) = 2
    /\ Expected(entries[1]) = "INVALID"
    /\ Expected(entries[2]) = "OK"
    /\ ok_count = 1
    /\ Len(errors) = 1

\* C5: an entry whose codepoint is not in the index is INVALID whatever its
\* comment says, and is counted neither as OK nor as MISMATCH.
C5_AbsentIsInvalid ==
    InLoop =>
        /\ \A j \in Checked :
              ~HasKey(cp_to_name, entries[j].codepoint) =>
                  /\ Cardinality(ErrorsOf(j)) = 1
                  /\ \A i \in ErrorsOf(j) :
                        /\ errors[i].type = "INVALID"
                        /\ errors[i].codepoint = entries[j].codepoint
        /\ ok_count <= Cardinality({j \in Checked : HasKey(cp_to_name, entries[j].codepoint)})

C5_Witness ==
    /\ InLoop
    /\ idx = 2
    /\ ~HasKey(cp_to_name, entries[1].codepoint)
    /\ \E k \in DOMAIN cp_to_name.val : cp_to_name.val[k] = Claimed(entries[1])
    /\ errors[1].type = "INVALID"

\* C6: an entry whose codepoint is in the index is OK when claimed equals the
\* registered name, is a prefix of it or is a substring of it; otherwise it is
\* MISMATCH and the recorded actual name is the index value.  A claimed name
\* that strictly extends the registered name is MISMATCH.
C6_MatchPolicy ==
    InLoop =>
        /\ \A j \in Checked :
              HasKey(cp_to_name, entries[j].codepoint) =>
                  IF Expected(entries[j]) = "OK"
                  THEN ErrorsOf(j) = {}
                  ELSE /\ Cardinality(ErrorsOf(j)) = 1
                       /\ \A i \in ErrorsOf(j) :
                             /\ errors[i].type = "MISMATCH"
                             /\ errors[i].actual = cp_to_name.val[entries[j].codepoint]
        /\ \A j \in Checked :
              (/\ HasKey(cp_to_name, entries[j].codepoint)
               /\ StrictlyExtends(Claimed(entries[j]), cp_to_name.val[entries[j].codepoint]))
              => \E i \in ErrorsOf(j) : errors[i].type = "MISMATCH"
        /\ ok_count = Cardinality({j \in Checked : Expected(entries[j]) = "OK"})

C6_Witness ==
    /\ InLoop
    /\ idx = 2
    /\ HasKey(cp_to_name, entries[1].codepoint)
    /\ StrictlyExtends(Claimed(entries[1]), cp_to_name.val[entries[1].codepoint])
    /\ Claimed(entries[1]) # extract_icon_name_from_comment(entries[1].comment)
    /\ errors[1].type = "MISMATCH"

\* C7 as claimed: the claimed name recorded on a MISMATCH, and shown in the
\* report, is the canonical name the match policy compared (underscores and
\* spaces turned into hyphens).
C7_RecordsCanonicalName ==
    \A i \in 1..Len(errors) :
        errors[i].type = "MISMATCH" =>
            /\ errors[i].claimed = Canonical(extract_icon_name_from_comment(errors[i].comment))
            /\ i \in 1..Len(report) => report[i].says = errors[i].claimed

\* C7 amended: the claimed name recorded on a MISMATCH, and shown in the
\* report, is the normalizer's output for the comment, before underscores and
\* spaces are turned into hyphens.
C7_RecordsNormalizedName ==
    \A i \in 1..Len(errors) :
        errors[i].type = "MISMATCH" =>
            /\ errors[i].claimed = extract_icon_name_from_comment(errors[i].comment)
            /\ i \in 1..Len(report) => report[i].says = errors[i].claimed

C7_Witness ==
    /\ pc = "exited"
    /\ Len(report) = 1
    /\ errors[1].type = "MISMATCH"
    /\ report[1].says = extract_icon_name_from_comment(errors[1].comment)
    /\ report[1].says # Canonical(extract_icon_name_from_comment(errors[1].comment))

\* C8: the normalizer is idempotent, and its result holds no '(' and no ' - ',
\* has no leading or trailing whitespace and is lowercase.
C8_NormalizerIdempotent ==
    /\ npc \in {"once", "twice"} =>
          /\ \A i \in 1..Len(once) : once[i] # "("
          /\ \A i \in 1..Len(once) :
                ~(i + 2 <= Len(once) /\ once[i] = " " /\ once[i + 1] = "-" /\ once[i + 2] = " ")
          /\ once # <<>> => (~IsSpace(once[1]) /\ ~IsSpace(once[Len(once)]))
          /\ \A i \in 1..Len(once) : once[i] \notin {"A", "B"}
    /\ npc = "twice" => twice = once

C8_Witness ==
    /\ npc = "twice"
    /\ comment = <<"B", " ", "-", " ", "a">>
    /\ once = <<"b">>
    /\ twice = once

\* the records that have a non-empty codepoint and a non-empty name
ValidIcons == {i \in 1..Len(mdi_data) :
                  Get(mdi_data[i], "codepoint") # <<>> /\ Get(mdi_data[i], "name") # <<>>}

\* the valid records whose codepoint is k, compared case-insensitively
IconsAt(k) == {i \in ValidIcons : Upper(mdi_data[i].codepoint) = k}

\* C9: the lookup holds one entry per distinct upper-cased codepoint of the
\* records that have both fields non-empty, other records add and overwrite
\* nothing, the last record of a codepoint wins, and a lookup returns the
\* stored name.
C9_LookupLastWins ==
    (FilesReadable /\ pc \in {"parse", "verify", "exited"}) =>
        /\ DOMAIN cp_to_name.val = {Upper(mdi_data[i].codepoint) : i \in ValidIcons}
        /\ Len(cp_to_name.keys) = Cardinality(DOMAIN cp_to_name.val)
        /\ \A k \in DOMAIN cp_to_name.val :
              \E i \in IconsAt(k) :
                  /\ \A j \in IconsAt(k) : j <= i
                  /\ cp_to_name.val[k] = mdi_data[i].name

C9_Witness ==
    /\ FilesReadable
    /\ pc = "parse"
    /\ Len(mdi_data) = 3
    /\ mdi_data[1] = [codepoint |-> <<"f", "0">>, name |-> <<"a">>]
    /\ mdi_data[2] = [codepoint |-> <<"F", "0">>, name |-> <<"b">>]
    /\ mdi_data[3] = [codepoint |-> <<"f", "0">>]
    /\ DOMAIN cp_to_name.val = {<<"F", "0">>}
    /\ cp_to_name.val[<<"F", "0">>] = <<"b">>

\* C10: an entry whose codepoint is in the index and whose normalized claimed
\* name is empty is OK whatever the registered name is, never MISMATCH.
C10_EmptyClaimIsOk ==
    InLoop =>
        \A j \in Checked :
            (/\ HasKey(cp_to_name, entries[j].codepoint)
             /\ extract_icon_name_from_comment(entries[j].comment) = <<>>)
            => (ErrorsOf(j) = {} /\ ok_count >= 1)

C10_Witness ==
    /\ InLoop
    /\ idx = 2
    /\ HasKey(cp_to_name, entries[1].codepoint)
    /\ entries[1].comment # <<>>
    /\ entries[1].comment[1] = "("
    /\ extract_icon_name_from_comment(entries[1].comment) = <<>>
    /\ ok_count = 1
    /\ errors = <<>>

====
